---- MODULE Spec2Model ----
(***************************************************************************)
(* Model of neo/rawio/plexon2rawio/plexon2rawio.py (class Plexon2RawIO).   *)
(*                                                                         *)
(* The vendor binding (PyPL2FileReader and the PL2*Info structures) is the *)
(* environment: what its calls return is the `source` the reader is bound  *)
(* to, drawn from bounded sets.  _parse_header is one action; every read   *)
(* method is one action that records its request and its outcome in        *)
(* `last`.  Python exceptions are outcomes named by the exception class.   *)
(*                                                                         *)
(* Modelling conventions                                                   *)
(*   - a Python value that may be None is a sequence: <<>> is None and     *)
(*     <<v>> is the value v;                                               *)
(*   - a numpy array is the sequence of its elements, a 2-D array of zeros *)
(*     is its shape;                                                       *)
(*   - the names PyPL2FileReader, PL2FileInfo, ... used by _parse_header   *)
(*     are taken to resolve to the binding's classes, and the numpy        *)
(*     conversions of the collected lists are taken to succeed.            *)
(***************************************************************************)
EXTENDS Integers, Sequences, FiniteSets, TLC

(***************************************************************************)
(* Bounds of the model.                                                    *)
(***************************************************************************)
\* total number of channel headers (analog + spike + digital) of a source
\* in the specification of the index build
MaxChannels == 3
\* the same total in the specification of the readers
MaxReadChannels == 2

\* sampling rates (Hz) and sample counts an analog channel may report
Rates == {1000, 40000}
Counts == {2, 3}
\* numbers of units a spike channel may report
UnitCounts == {0, 1, 2}
\* m_StartRecordingTime / m_TimestampFrequency, in whole seconds
StartTimes == {0, 1}

None == <<>>
Some(v) == <<v>>

(***************************************************************************)
(* The source: what the binding answers.                                   *)
(***************************************************************************)
\* what pl2_get_analog_channel_info can answer for one channel
AnalogInfos ==
    {[res |-> 0, m_ChannelEnabled |-> FALSE, m_SamplesPerSecond |-> 1000, m_NumberOfValues |-> 2],
     [res |-> 1, m_ChannelEnabled |-> FALSE, m_SamplesPerSecond |-> 1000, m_NumberOfValues |-> 2]}
    \cup {[res |-> 1, m_ChannelEnabled |-> TRUE, m_SamplesPerSecond |-> r, m_NumberOfValues |-> n] :
            r \in Rates, n \in Counts}

\* what pl2_get_spike_channel_info can answer for one channel; has_waveforms
\* tells whether the file holds waveform samples for the channel
SpikeInfos ==
    {[res |-> 0, m_ChannelEnabled |-> FALSE, m_NumberOfUnits |-> 0, has_waveforms |-> TRUE],
     [res |-> 1, m_ChannelEnabled |-> FALSE, m_NumberOfUnits |-> 0, has_waveforms |-> TRUE]}
    \cup {[res |-> 1, m_ChannelEnabled |-> TRUE, m_NumberOfUnits |-> u, has_waveforms |-> TRUE] :
            u \in UnitCounts}

\* what pl2_get_digital_channel_info can answer for one channel
DigitalInfos ==
    {[res |-> 0, m_ChannelEnabled |-> FALSE],
     [res |-> 1, m_ChannelEnabled |-> FALSE],
     [res |-> 1, m_ChannelEnabled |-> TRUE]}

SeqsOfLen(S, n) == [1..n -> S]

\* the sources with at most maxCh channel headers in all
SourcesOf(maxCh, As, Ss, Ds, oks, t0s) ==
    UNION {
        {[open_ok |-> o, info_ok |-> f, analog |-> a, spike |-> s, digital |-> d, t0 |-> t] :
            o \in oks, f \in oks, a \in SeqsOfLen(As, na), s \in SeqsOfLen(Ss, ns),
            d \in SeqsOfLen(Ds, nd), t \in t0s} :
        <<na, ns, nd>> \in {n \in (0..maxCh) \X (0..maxCh) \X (0..maxCh) :
                               n[1] + n[2] + n[3] <= maxCh} }

VARIABLES
    source,     \* the file behind self.filename, as the binding reports it
    pc,         \* "new" | "built" | "failed" : position of the reader object
    error,      \* exception _parse_header ended with, "" if none
    handle,     \* result of pl2_open_file, -1 before the call
    calls,      \* binding calls made so far, in order
    warned,     \* warnings.warn calls made so far, in order
    header,     \* self.header
    signal_stream_characteristics,   \* self.signal_stream_characteristics
    last,       \* request and outcome of the latest read method
    rng_seed    \* seed last given to numpy's global random generator, None if none

vars == <<source, pc, error, handle, calls, warned, header,
          signal_stream_characteristics, last, rng_seed>>

(***************************************************************************)
(* The binding, as _parse_header uses it.                                  *)
(***************************************************************************)
\* p.pl2_open_file(filename): a handle, 0 when the file cannot be opened
pl2_open_file(src) == IF src.open_ok THEN 1 ELSE 0

\* p.pl2_get_file_info(file_info): 0 on failure; the channel totals of
\* file_info bound the three scans
pl2_get_file_info(src) == IF src.info_ok THEN 1 ELSE 0
m_TotalNumberOfAnalogChannels(src) == Len(src.analog)
m_TotalNumberOfSpikeChannels(src) == Len(src.spike)
m_NumberOfDigitalChannels(src) == Len(src.digital)

\* the per-channel info calls, c counted from 0; m_Channel is the channel's
\* number in the file
pl2_get_analog_channel_info(src, c) == src.analog[c + 1]
pl2_get_spike_channel_info(src, c) == src.spike[c + 1]
pl2_get_digital_channel_info(src, i) == src.digital[i + 1]
m_Channel(c) == c + 1

(***************************************************************************)
(* _parse_header: the scan of the analog channels.                         *)
(***************************************************************************)
\* list.index: position (from 0) of the first element equal to x
RECURSIVE IndexOf(_, _, _)
IndexOf(list, x, i) ==
    IF i > Len(list) THEN -1
    ELSE IF list[i] = x THEN i - 1
    ELSE IndexOf(list, x, i + 1)

\* a classification that matches on the sampling rate alone
ClassifyStreamByRate(stream_characteristic, stream_characteristics) ==
    IF \E i \in 1..Len(stream_characteristics) :
            stream_characteristics[i][1] = stream_characteristic[1]
    THEN [stream_id |-> (CHOOSE i \in 1..Len(stream_characteristics) :
                            stream_characteristics[i][1] = stream_characteristic[1]) - 1,
          stream_characteristics |-> stream_characteristics]
    ELSE [stream_id |-> Len(stream_characteristics),
          stream_characteristics |-> Append(stream_characteristics, stream_characteristic)]

\* assign to the matching stream or create a new stream
ClassifyStream(stream_characteristic, stream_characteristics) ==
    IF IndexOf(stream_characteristics, stream_characteristic, 1) >= 0
    THEN [stream_id |-> IndexOf(stream_characteristics, stream_characteristic, 1),
          stream_characteristics |-> stream_characteristics]
    ELSE [stream_id |-> Len(stream_characteristics),
          stream_characteristics |-> Append(stream_characteristics, stream_characteristic)]

\* one entry of signal_channels
SignalChannel(c, achannel_info, stream_id) ==
    [name |-> <<"analog", m_Channel(c)>>,
     id |-> m_Channel(c),
     sampling_rate |-> achannel_info.m_SamplesPerSecond,
     dtype |-> "int16",
     offset |-> 0,
     stream_id |-> stream_id]

\* the loop over range(m_TotalNumberOfAnalogChannels), from channel c on
RECURSIVE ScanAnalog(_, _, _)
ScanAnalog(src, c, acc) ==
    IF c >= m_TotalNumberOfAnalogChannels(src) THEN acc
    ELSE
        LET achannel_info == pl2_get_analog_channel_info(src, c)
            called == Append(acc.calls, <<"analog_channel_info", c>>)
        IN  IF achannel_info.res = 0
            THEN ScanAnalog(src, c + 1,
                    [acc EXCEPT !.calls = called,
                                !.warned = Append(@, <<"analog", c>>)])
            ELSE IF ~achannel_info.m_ChannelEnabled
            THEN ScanAnalog(src, c + 1, [acc EXCEPT !.calls = called])
            ELSE
                LET stream_characteristic == <<achannel_info.m_SamplesPerSecond,
                                               achannel_info.m_NumberOfValues>>
                    cls == ClassifyStream(stream_characteristic, acc.stream_characteristics)
                IN  ScanAnalog(src, c + 1,
                        [acc EXCEPT !.calls = called,
                                    !.stream_characteristics = cls.stream_characteristics,
                                    !.signal_channels =
                                        Append(@, SignalChannel(c, achannel_info, cls.stream_id))])

(***************************************************************************)
(* _parse_header: the scan of the spike channels.                          *)
(***************************************************************************)
\* the entries of one enabled channel, one per unit
UnitsOf(c, schannel_info) ==
    [channel_unit_id \in 1..schannel_info.m_NumberOfUnits |->
        [name |-> <<"spike", m_Channel(c), "-", channel_unit_id - 1>>,
         id |-> <<"#", m_Channel(c), "-", channel_unit_id - 1>>,
         wf_offset |-> 0]]

RECURSIVE ScanSpike(_, _, _)
ScanSpike(src, c, acc) ==
    IF c >= m_TotalNumberOfSpikeChannels(src) THEN acc
    ELSE
        LET schannel_info == pl2_get_spike_channel_info(src, c)
            called == Append(acc.calls, <<"spike_channel_info", c>>)
        IN  IF schannel_info.res = 0
            THEN ScanSpike(src, c + 1,
                    [acc EXCEPT !.calls = called,
                                !.warned = Append(@, <<"spike", c>>)])
            ELSE IF ~schannel_info.m_ChannelEnabled
            THEN ScanSpike(src, c + 1, [acc EXCEPT !.calls = called])
            ELSE ScanSpike(src, c + 1,
                    [acc EXCEPT !.calls = called,
                                !.spike_channels = @ \o UnitsOf(c, schannel_info)])

(***************************************************************************)
(* _parse_header: the scan of the digital channels.                        *)
(***************************************************************************)
\* the warning of this loop formats the variable c of the two loops above,
\* which is bound only if one of them ran at least once
c_is_bound(src) ==
    m_TotalNumberOfAnalogChannels(src) > 0 \/ m_TotalNumberOfSpikeChannels(src) > 0

RECURSIVE ScanDigital(_, _, _)
ScanDigital(src, i, acc) ==
    IF i >= m_NumberOfDigitalChannels(src) THEN acc
    ELSE
        LET echannel_info == pl2_get_digital_channel_info(src, i)
            called == Append(acc.calls, <<"digital_channel_info", i>>)
        IN  IF echannel_info.res = 0
            THEN IF c_is_bound(src)
                 THEN ScanDigital(src, i + 1,
                        [acc EXCEPT !.calls = called,
                                    !.warned = Append(@, <<"digital", i>>)])
                 ELSE [acc EXCEPT !.calls = called, !.error = "UnboundLocalError"]
            ELSE IF ~echannel_info.m_ChannelEnabled
            THEN ScanDigital(src, i + 1, [acc EXCEPT !.calls = called])
            ELSE ScanDigital(src, i + 1,
                    [acc EXCEPT !.calls = called,
                                !.event_channels =
                                    Append(@, [name |-> <<"digital", m_Channel(i)>>,
                                               id |-> m_Channel(i),
                                               type |-> "event"])])

(***************************************************************************)
(* _parse_header as a whole.                                               *)
(***************************************************************************)
NoHeader ==
    [nb_block |-> 0, nb_segment |-> <<>>, signal_streams |-> <<>>,
     signal_channels |-> <<>>, spike_channels |-> <<>>, event_channels |-> <<>>]

\* the table built from stream_characteristics
CharacteristicsTable(stream_characteristics) ==
    [k \in 1..Len(stream_characteristics) |->
        [sampling_rate |-> stream_characteristics[k][1],
         n_samples |-> stream_characteristics[k][2]]]

\* everything _parse_header computes for a source
ParseResult(src) ==
    LET start == [calls |-> <<<<"open_file">>, <<"get_file_info">>>>,
                  warned |-> <<>>, error |-> "",
                  stream_characteristics |-> <<>>, signal_channels |-> <<>>,
                  spike_channels |-> <<>>, event_channels |-> <<>>]
    IN  ScanDigital(src, 0, ScanSpike(src, 0, ScanAnalog(src, 0, start)))

\* signal_streams is created empty and never appended to
HeaderOf(scan) ==
    [nb_block |-> 1, nb_segment |-> <<1>>, signal_streams |-> <<>>,
     signal_channels |-> scan.signal_channels,
     spike_channels |-> scan.spike_channels,
     event_channels |-> scan.event_channels]

NoRequest == [op |-> "none", args |-> <<>>, status |-> "", value |-> <<>>]

ParseHeader ==
    /\ pc = "new"
    /\ LET scan == ParseResult(source)
       IN  /\ handle' = pl2_open_file(source)
           /\ calls' = scan.calls
           /\ warned' = scan.warned
           /\ signal_stream_characteristics' =
                CharacteristicsTable(scan.stream_characteristics)
           /\ error' = scan.error
           /\ IF scan.error = ""
              THEN pc' = "built" /\ header' = HeaderOf(scan)
              ELSE pc' = "failed" /\ header' = header
    /\ UNCHANGED <<source, last, rng_seed>>

InitState ==
    /\ pc = "new"
    /\ error = ""
    /\ handle = -1
    /\ calls = <<>>
    /\ warned = <<>>
    /\ header = NoHeader
    /\ signal_stream_characteristics = <<>>
    /\ last = NoRequest
    /\ rng_seed = None

BuildSources == SourcesOf(MaxChannels, AnalogInfos, SpikeInfos, DigitalInfos, BOOLEAN, {0})

InitBuild == source \in BuildSources /\ InitState

NextBuild == ParseHeader

SpecBuild == InitBuild /\ [][NextBuild]_vars

(***************************************************************************)
(* The read methods.  Each is an operator giving the outcome               *)
(* [status, value] of the call: status is "ok" or the exception raised.    *)
(***************************************************************************)
Ok(v) == [status |-> "ok", value |-> v]
Raise(e) == [status |-> e, value |-> <<>>]

\* self.file_info.m_StartRecordingTime / self.file_info.m_TimestampFrequency,
\* in seconds
segment_t_start(src) == src.t0

\* _get_signal_size: looks the stream up in header['signal_streams'] first
get_signal_size(hdr, table, stream_index) ==
    IF stream_index \notin 0..(Len(hdr.signal_streams) - 1)
    THEN Raise("IndexError")
    ELSE LET stream_id == hdr.signal_streams[stream_index + 1].stream_id
         IN  Ok(table[stream_id + 1].n_samples)

\* _get_signal_t_start
get_signal_t_start(src) == Ok(segment_t_start(src))

\* the sample count and the channel count _get_analogsignal_chunk works with
ChunkSamples == 100000
ChunkChannels == 8

Min(a, b) == IF a < b THEN a ELSE b

\* len(np.arange(8)[start:stop]) for start, stop >= 0
SliceLen(start, stop) ==
    IF Min(stop, ChunkChannels) > Min(start, ChunkChannels)
    THEN Min(stop, ChunkChannels) - Min(start, ChunkChannels)
    ELSE 0

\* np.zeros((rows, cols)): its shape, or the error for a negative dimension
Zeros(rows, cols) == IF rows < 0 THEN Raise("ValueError") ELSE Ok(<<rows, cols>>)

\* _get_analogsignal_chunk; channel_indexes is [kind |-> "none"], a slice
\* [kind |-> "slice", items |-> <<start, stop>>] or a list
\* [kind |-> "list", items |-> <<i1, i2, ...>>]
get_analogsignal_chunk(i_start, i_stop, stream_index, channel_indexes) ==
    LET start == IF i_start = None THEN 0 ELSE i_start[1]
        stop == IF i_stop = None THEN ChunkSamples ELSE i_stop[1]
        items == channel_indexes.items
    IN  IF start < 0 \/ stop > ChunkSamples THEN Raise("IndexError")
        ELSE IF channel_indexes.kind = "none" THEN Zeros(stop - start, ChunkChannels)
        ELSE IF channel_indexes.kind = "slice"
        THEN Zeros(stop - start, SliceLen(items[1], items[2]))
        ELSE IF \E k \in 1..Len(items) : items[k] < 0 THEN Raise("IndexError")
        ELSE IF \E k \in 1..Len(items) : items[k] >= ChunkChannels THEN Raise("IndexError")
        ELSE Zeros(stop - start, Len(items))

\* _spike_count
NbSpikes == 20
spike_count == Ok(NbSpikes)

\* ticks per second of the spike timestamps, and the spacing of the spikes
TicksPerSecond == 10000
SpikeStep == 500

\* int(t * 10000) for a time t given in half ticks: truncation toward zero
IntTicks(half_ticks) ==
    IF half_ticks >= 0 THEN half_ticks \div 2 ELSE -((-half_ticks) \div 2)

\* array[mask]: the elements at the positions where keep holds, in order
RECURSIVE Masked(_, _, _)
Masked(array, keep, k) ==
    IF k > Len(array) THEN <<>>
    ELSE IF keep[k] THEN <<array[k]>> \o Masked(array, keep, k + 1)
    ELSE Masked(array, keep, k + 1)

\* np.arange(0, 10000, 500) + ts_start
AllSpikeTimestamps(src) ==
    [k \in 1..(TicksPerSecond \div SpikeStep) |->
        (k - 1) * SpikeStep + segment_t_start(src) * TicksPerSecond]

\* a window test that leaves the upper limit out
get_spike_timestamps_open(src, spike_channel_index, t_start, t_stop) ==
    LET spike_timestamps == AllSpikeTimestamps(src)
    IN  IF t_start # None \/ t_stop # None
        THEN IF t_start = None \/ t_stop = None THEN Raise("TypeError")
             ELSE LET lim0 == IntTicks(t_start[1])
                      lim1 == IntTicks(t_stop[1])
                      mask == [k \in 1..Len(spike_timestamps) |->
                                 spike_timestamps[k] >= lim0 /\ spike_timestamps[k] < lim1]
                  IN  Ok(Masked(spike_timestamps, mask, 1))
        ELSE Ok(spike_timestamps)

\* _get_spike_timestamps; t_start and t_stop are times in half ticks or None
get_spike_timestamps(src, spike_channel_index, t_start, t_stop) ==
    LET spike_timestamps == AllSpikeTimestamps(src)
    IN  IF t_start # None \/ t_stop # None
        THEN IF t_start = None \/ t_stop = None THEN Raise("TypeError")
             ELSE LET lim0 == IntTicks(t_start[1])
                      lim1 == IntTicks(t_stop[1])
                      mask == [k \in 1..Len(spike_timestamps) |->
                                 spike_timestamps[k] >= lim0 /\ spike_timestamps[k] <= lim1]
                  IN  Ok(Masked(spike_timestamps, mask, 1))
        ELSE Ok(spike_timestamps)

\* samples of one waveform, and the seed of the random waveforms
WaveformSamples == 50
WaveformSeed == 2205

\* _get_spike_raw_waveforms: the shape of the array of waveforms
get_spike_raw_waveforms(src, spike_channel_index, t_start, t_stop) ==
    LET ts == get_spike_timestamps(src, spike_channel_index, t_start, t_stop)
    IN  IF ts.status # "ok" THEN ts
        ELSE Ok(<<Len(ts.value), 1, WaveformSamples>>)

\* _event_count: falls off the end (None) for any other channel
NbEvents == 6
NbEpochs == 10
event_count(event_channel_index) ==
    IF event_channel_index = 0 THEN Ok(Some(NbEvents))
    ELSE IF event_channel_index = 1 THEN Ok(Some(NbEpochs))
    ELSE Ok(None)

\* the arrays of the two event channels before filtering; times are in
\* quarters of a second
EventArrays(src, event_channel_index) ==
    IF event_channel_index = 0
    THEN [timestamp |-> [k \in 1..NbEvents |-> 4 * (k - 1) + 4 * segment_t_start(src)],
          durations |-> None,
          labels |-> [k \in 1..NbEvents |-> IF k % 2 = 1 THEN "trigger_a" ELSE "trigger_b"]]
    ELSE [timestamp |-> [k \in 1..NbEpochs |-> 4 * (k - 1) + 2 + 4 * segment_t_start(src)],
          durations |-> Some([k \in 1..NbEpochs |-> 1]),
          labels |-> [k \in 1..NbEpochs |-> IF k <= 5 THEN "zoneX" ELSE "zoneZ"]]

\* a filter that forgets the labels
KeepTimesOnly(arrays, keep) ==
    [timestamp |-> Masked(arrays.timestamp, keep, 1),
     durations |-> IF arrays.durations = None THEN None
                   ELSE Some(Masked(arrays.durations[1], keep, 1)),
     labels |-> arrays.labels]

\* timestamp[keep], labels[keep] and, if there are durations, durations[keep]
Keep(arrays, keep) ==
    [timestamp |-> Masked(arrays.timestamp, keep, 1),
     durations |-> IF arrays.durations = None THEN None
                   ELSE Some(Masked(arrays.durations[1], keep, 1)),
     labels |-> Masked(arrays.labels, keep, 1)]

\* if t_start is not None: keep = timestamp >= t_start
KeepFrom(arrays, t_start) ==
    IF t_start = None THEN arrays
    ELSE Keep(arrays, [k \in 1..Len(arrays.timestamp) |-> arrays.timestamp[k] >= t_start[1]])

\* if t_stop is not None: keep = timestamp <= t_stop
KeepUntil(arrays, t_stop) ==
    IF t_stop = None THEN arrays
    ELSE Keep(arrays, [k \in 1..Len(arrays.timestamp) |-> arrays.timestamp[k] <= t_stop[1]])

\* _get_event_timestamps: for a channel other than 0 and 1 no array is bound
get_event_timestamps(src, event_channel_index, t_start, t_stop) ==
    IF event_channel_index \notin {0, 1} THEN Raise("UnboundLocalError")
    ELSE Ok(KeepUntil(KeepFrom(EventArrays(src, event_channel_index), t_start), t_stop))

\* _rescale_spike_timestamp: a copy of the array divided by 10000; a time in
\* seconds is the fraction [num, den]
rescale_spike_timestamp(spike_timestamps, dtype) ==
    Ok([k \in 1..Len(spike_timestamps) |->
            [num |-> spike_timestamps[k], den |-> TicksPerSecond]])

\* _rescale_event_timestamp and _rescale_epoch_duration: a copy of the array
\* in the requested type, the unit being seconds already
rescale_event_timestamp(event_timestamps, dtype, event_channel_index) ==
    Ok([k \in 1..Len(event_timestamps) |-> event_timestamps[k]])
rescale_epoch_duration(raw_duration, dtype, event_channel_index) ==
    Ok([k \in 1..Len(raw_duration) |-> raw_duration[k]])

(***************************************************************************)
(* The requests the readers are given.                                     *)
(***************************************************************************)
StreamIndexes == {0, 1}
IStarts == {None, Some(-1), Some(0), Some(3)}
IStops == {None, Some(2), Some(3), Some(100000), Some(100001)}
ChannelSelectors ==
    {[kind |-> "none", items |-> <<>>],
     [kind |-> "slice", items |-> <<0, 2>>],
     [kind |-> "slice", items |-> <<7, 9>>]}
    \cup {[kind |-> "list", items |-> l] :
            l \in {<<>>, <<0>>, <<1>>, <<0, 1>>, <<7>>, <<8>>, <<-1>>}}
SpikeChannelIndexes == {0, 1}
\* window limits of the spike readers, in half ticks
SpikeTStarts == {None, Some(0), Some(1001), Some(20000)}
SpikeTStops == {None, Some(-1), Some(1000), Some(21001), Some(40000)}
EventChannelIndexes == {0, 1, 2}
\* window limits of the event reader, in quarters of a second
EventTStarts == {None, Some(8), Some(9), Some(10)}
EventTStops == {None, Some(3), Some(12), Some(14)}

\* everything but `last`: the source and the fields of the reader object
object == <<source, pc, error, handle, calls, warned, header,
            signal_stream_characteristics>>

\* a read method runs to its return or its exception: the reader is called by
\* one thread, so a call starts only when the one before it has ended
Idle == pc = "built" /\ last = NoRequest

\* arrays handed to the rescale functions, and the type asked for
RawArrays == {<<>>, <<500>>, <<0, 10000>>}
FloatTypes == {"float32", "float64"}

Answered(op, args, outcome) ==
    [op |-> op, args |-> args, status |-> outcome.status, value |-> outcome.value]

\* a size query that registers the stream it was asked about in the header
GetSignalSizeRegistering ==
    /\ Idle
    /\ \E stream_index \in StreamIndexes :
            /\ last' = Answered("get_signal_size", [stream_index |-> stream_index],
                   get_signal_size(header, signal_stream_characteristics, stream_index))
            /\ header' = [header EXCEPT !.signal_streams =
                                Append(@, [stream_id |-> stream_index])]
    /\ UNCHANGED <<source, pc, error, handle, calls, warned,
                   signal_stream_characteristics, rng_seed>>

GetSignalSize ==
    /\ Idle
    /\ \E stream_index \in StreamIndexes :
            last' = Answered("get_signal_size", [stream_index |-> stream_index],
                   get_signal_size(header, signal_stream_characteristics, stream_index))
    /\ UNCHANGED <<object, rng_seed>>

GetSignalTStart ==
    /\ Idle
    /\ \E stream_index \in StreamIndexes :
            last' = Answered("get_signal_t_start", [stream_index |-> stream_index],
                   get_signal_t_start(source))
    /\ UNCHANGED <<object, rng_seed>>

GetAnalogsignalChunk ==
    /\ Idle
    /\ \E i_start \in IStarts, i_stop \in IStops, stream_index \in StreamIndexes,
              channel_indexes \in ChannelSelectors :
            last' = Answered("get_analogsignal_chunk",
                   [i_start |-> i_start, i_stop |-> i_stop, stream_index |-> stream_index,
                    channel_indexes |-> channel_indexes],
                   get_analogsignal_chunk(i_start, i_stop, stream_index, channel_indexes))
    /\ UNCHANGED <<object, rng_seed>>

SpikeCount ==
    /\ Idle
    /\ \E spike_channel_index \in SpikeChannelIndexes :
            last' = Answered("spike_count", [spike_channel_index |-> spike_channel_index], spike_count)
    /\ UNCHANGED <<object, rng_seed>>

GetSpikeTimestamps ==
    /\ Idle
    /\ \E spike_channel_index \in SpikeChannelIndexes,
              t_start \in SpikeTStarts, t_stop \in SpikeTStops :
            last' = Answered("get_spike_timestamps",
                   [spike_channel_index |-> spike_channel_index,
                    t_start |-> t_start, t_stop |-> t_stop],
                   get_spike_timestamps(source, spike_channel_index, t_start, t_stop))
    /\ UNCHANGED <<object, rng_seed>>

GetSpikeRawWaveforms ==
    /\ Idle
    /\ \E spike_channel_index \in SpikeChannelIndexes,
              t_start \in SpikeTStarts, t_stop \in SpikeTStops :
            LET outcome == get_spike_raw_waveforms(source, spike_channel_index,
                                                   t_start, t_stop)
            IN  /\ last' = Answered("get_spike_raw_waveforms",
                                    [spike_channel_index |-> spike_channel_index,
                                     t_start |-> t_start, t_stop |-> t_stop],
                                    outcome)
                \* np.random.seed(2205), reached unless the timestamps raised
                /\ rng_seed' = IF outcome.status = "ok" THEN Some(WaveformSeed)
                                ELSE rng_seed
    /\ UNCHANGED object

EventCount ==
    /\ Idle
    /\ \E event_channel_index \in EventChannelIndexes :
            last' = Answered("event_count", [event_channel_index |-> event_channel_index],
                   event_count(event_channel_index))
    /\ UNCHANGED <<object, rng_seed>>

GetEventTimestamps ==
    /\ Idle
    /\ \E event_channel_index \in EventChannelIndexes,
              t_start \in EventTStarts, t_stop \in EventTStops :
            last' = Answered("get_event_timestamps",
                   [event_channel_index |-> event_channel_index,
                    t_start |-> t_start, t_stop |-> t_stop],
                   get_event_timestamps(source, event_channel_index, t_start, t_stop))
    /\ UNCHANGED <<object, rng_seed>>

RescaleSpikeTimestamp ==
    /\ Idle
    /\ \E spike_timestamps \in RawArrays, dtype \in FloatTypes :
            last' = Answered("rescale_spike_timestamp",
                   [raw |-> spike_timestamps, dtype |-> dtype],
                   rescale_spike_timestamp(spike_timestamps, dtype))
    /\ UNCHANGED <<object, rng_seed>>

RescaleEventTimestamp ==
    /\ Idle
    /\ \E event_timestamps \in RawArrays, dtype \in FloatTypes,
              event_channel_index \in EventChannelIndexes :
            last' = Answered("rescale_event_timestamp",
                   [raw |-> event_timestamps, dtype |-> dtype,
                    event_channel_index |-> event_channel_index],
                   rescale_event_timestamp(event_timestamps, dtype, event_channel_index))
    /\ UNCHANGED <<object, rng_seed>>

RescaleEpochDuration ==
    /\ Idle
    /\ \E raw_duration \in RawArrays, dtype \in FloatTypes,
              event_channel_index \in EventChannelIndexes :
            last' = Answered("rescale_epoch_duration",
                   [raw |-> raw_duration, dtype |-> dtype,
                    event_channel_index |-> event_channel_index],
                   rescale_epoch_duration(raw_duration, dtype, event_channel_index))
    /\ UNCHANGED <<object, rng_seed>>

\* the sources of the readers' specification: every channel is usable; a
\* spike channel has one unit and may or may not have waveform samples
ReadAnalogInfos == {a \in AnalogInfos : a.res = 1 /\ a.m_ChannelEnabled}
ReadSpikeInfos ==
    {[res |-> 1, m_ChannelEnabled |-> TRUE, m_NumberOfUnits |-> 1, has_waveforms |-> w] :
        w \in BOOLEAN}
ReadDigitalInfos == {d \in DigitalInfos : d.res = 1 /\ d.m_ChannelEnabled}

ReadSources ==
    SourcesOf(MaxReadChannels, ReadAnalogInfos, ReadSpikeInfos, ReadDigitalInfos,
              {TRUE}, StartTimes)

\* the caller takes the outcome of the call that ended
Return ==
    /\ last # NoRequest
    /\ last' = NoRequest
    /\ UNCHANGED <<object, rng_seed>>

Init == source \in ReadSources /\ InitState

Next ==
    \/ ParseHeader
    \/ GetSignalSize
    \/ GetSignalTStart
    \/ GetAnalogsignalChunk
    \/ SpikeCount
    \/ GetSpikeTimestamps
    \/ GetSpikeRawWaveforms
    \/ EventCount
    \/ GetEventTimestamps
    \/ RescaleSpikeTimestamp
    \/ RescaleEventTimestamp
    \/ RescaleEpochDuration
    \/ Return

Spec == Init /\ [][Next]_vars

(***************************************************************************)
(* Properties of the index build.                                          *)
(***************************************************************************)
Range(seq) == {seq[i] : i \in 1..Len(seq)}

\* the channel numbers whose info call succeeded and whose enabled flag is set
Usable(infos) == {ch \in 1..Len(infos) : infos[ch].res = 1 /\ infos[ch].m_ChannelEnabled}

\* (sampling_rate, sample_count) of analog channel number ch of the source
PairOf(ch) == <<source.analog[ch].m_SamplesPerSecond, source.analog[ch].m_NumberOfValues>>

\* the usable analog channel that is the first of the scan with the pair of ch
FirstWithPairOf(ch) ==
    CHOOSE f \in Usable(source.analog) :
        /\ PairOf(f) = PairOf(ch)
        /\ \A g \in Usable(source.analog) : PairOf(g) = PairOf(ch) => f <= g

\* the stream ids the index records for analog channel number ch
StreamIdsOf(ch) == {e.stream_id : e \in {x \in Range(header.signal_channels) : x.id = ch}}

IsChannelInfoCall(call) ==
    call[1] \in {"analog_channel_info", "spike_channel_info", "digital_channel_info"}

\* C2: when pl2_open_file returns 0 or pl2_get_file_info returns 0 the build
\* ends in an error, makes no per-channel info call and populates no header.
C2_FatalErrorAbortsBuild ==
    (pc # "new" /\ (pl2_open_file(source) = 0 \/ pl2_get_file_info(source) = 0)) =>
        /\ pc = "failed"
        /\ error # ""
        /\ \A k \in 1..Len(calls) : ~IsChannelInfoCall(calls[k])
        /\ header = NoHeader

\* ids of the entries of a collection are exactly the usable channel numbers,
\* in scan order
ExactlyUsableInOrder(entries, infos) ==
    /\ Len(entries) = Cardinality(Usable(infos))
    /\ {entries[k].id : k \in 1..Len(entries)} = Usable(infos)
    /\ \A k \in 1..Len(entries) - 1 : entries[k].id < entries[k + 1].id

\* the spike collection holds, in scan order, the units 0 .. m_NumberOfUnits - 1
\* of every usable spike channel and nothing else
ExactlyUsableUnitsInOrder(entries, infos) ==
    /\ \A k \in 1..Len(entries) : entries[k].id[2] \in Usable(infos)
    /\ \A ch \in Usable(infos) :
            {entries[k].id[4] : k \in {j \in 1..Len(entries) : entries[j].id[2] = ch}}
                = 0..(infos[ch].m_NumberOfUnits - 1)
    /\ \A k \in 1..Len(entries) - 1 :
            \/ entries[k].id[2] < entries[k + 1].id[2]
            \/ /\ entries[k].id[2] = entries[k + 1].id[2]
               /\ entries[k].id[4] < entries[k + 1].id[4]

IndexHoldsUsableChannels ==
    /\ ExactlyUsableInOrder(header.signal_channels, source.analog)
    /\ ExactlyUsableUnitsInOrder(header.spike_channels, source.spike)
    /\ ExactlyUsableInOrder(header.event_channels, source.digital)

\* C3: when the open and file-info calls succeed the build completes and the
\* three channel collections hold exactly the usable channels in scan order;
\* a failed info call or a disabled channel never aborts the build.
C3_BadChannelNeverAborts ==
    (pc # "new" /\ pl2_open_file(source) # 0 /\ pl2_get_file_info(source) # 0) =>
        /\ pc = "built"
        /\ IndexHoldsUsableChannels

\* what does hold: every completed build indexes exactly the usable channels
C3_CompletedBuildHoldsUsableChannels ==
    pc = "built" => IndexHoldsUsableChannels

\* and the build completes whenever the digital scan can format its warning
C3_CompletesWhenWarningFormats ==
    (pc # "new" /\ c_is_bound(source)) => pc = "built"

Streams == 0..(Len(signal_stream_characteristics) - 1)
StreamSamples(s) == signal_stream_characteristics[s + 1].n_samples
StreamChannelCount(s) ==
    Cardinality({k \in 1..Len(header.signal_channels) :
                    header.signal_channels[k].stream_id = s})

ChunkAnswered == last.op = "get_analogsignal_chunk" /\ last.args.stream_index \in Streams

C4_SignalSizeIsSampleCount ==
    (last.op = "get_signal_size" /\ last.args.stream_index \in Streams) =>
        /\ last.status = "ok"
        /\ last.value = StreamSamples(last.args.stream_index)

SpikeChannelInIndex(k) == k \in 0..(Len(header.spike_channels) - 1)

\* the spike times of the segment, in ticks
SegmentSpikeTimes ==
    {j * SpikeStep + segment_t_start(source) * TicksPerSecond :
        j \in 0..((TicksPerSecond \div SpikeStep) - 1)}

Ascending(seq) == \A k \in 1..Len(seq) - 1 : seq[k] < seq[k + 1]

\* C6 as claimed: the number of timestamps get_spike_timestamps returns, for
\* any window, is spike_count.
C6_TimestampsMatchSpikeCount ==
    (/\ last.op = "get_spike_timestamps"
     /\ SpikeChannelInIndex(last.args.spike_channel_index)
     /\ last.status = "ok") =>
        Len(last.value) = spike_count.value

\* C6 as amended: spike_count takes no window and counts the spikes of the
\* whole segment.  With t_start and t_stop both omitted get_spike_timestamps
\* returns that many timestamps; with both given it returns, in ascending
\* order, exactly the segment's spike times inside
\* [int(t_start * 10000), int(t_stop * 10000)], at most spike_count of them.
C6_TimestampsWithinSpikeCount ==
    (/\ last.op = "get_spike_timestamps"
     /\ SpikeChannelInIndex(last.args.spike_channel_index)
     /\ (last.args.t_start = None) <=> (last.args.t_stop = None)) =>
        /\ last.status = "ok"
        /\ Ascending(last.value)
        /\ Len(last.value) <= spike_count.value
        /\ IF last.args.t_start = None
           THEN /\ Range(last.value) = SegmentSpikeTimes
                /\ Len(last.value) = spike_count.value
           ELSE Range(last.value) =
                    {ts \in SegmentSpikeTimes :
                        /\ ts >= IntTicks(last.args.t_start[1])
                        /\ ts <= IntTicks(last.args.t_stop[1])}

\* a window that keeps some spikes of a channel of the index and excludes
\* others, its upper limit being a spike time
C6_Witness ==
    /\ last.op = "get_spike_timestamps"
    /\ SpikeChannelInIndex(last.args.spike_channel_index)
    /\ last.args.t_start # None /\ last.args.t_stop # None
    /\ last.status = "ok"
    /\ Len(last.value) > 0
    /\ Len(last.value) < spike_count.value
    /\ last.value[Len(last.value)] = IntTicks(last.args.t_stop[1])

\* whether the file holds waveform samples for spike channel k of the index
HasWaveforms(k) == source.spike[header.spike_channels[k + 1].id[2]].has_waveforms

\* C7: for a spike channel with waveform data the first dimension of
\* get_spike_waveforms is the number of timestamps get_spike_timestamps
\* returns for the same arguments; for a channel without waveform data the
\* result is None.
C7_WaveformsMatchOrAbsent ==
    (/\ last.op = "get_spike_raw_waveforms"
     /\ SpikeChannelInIndex(last.args.spike_channel_index)
     /\ (last.args.t_start = None) <=> (last.args.t_stop = None)) =>
        /\ last.status = "ok"
        /\ IF HasWaveforms(last.args.spike_channel_index)
           THEN /\ last.value # None
                /\ last.value[1] =
                        Len(get_spike_timestamps(source, last.args.spike_channel_index,
                                                 last.args.t_start, last.args.t_stop).value)
           ELSE last.value = None

\* what does hold of the waveforms: their first dimension is the number of
\* timestamps of the same window, whether or not the file has waveform data
C7_WaveformsMatchTimestamps ==
    (/\ last.op = "get_spike_raw_waveforms"
     /\ (last.args.t_start = None) <=> (last.args.t_stop = None)) =>
        /\ last.status = "ok"
        /\ last.value[1] =
                Len(get_spike_timestamps(source, last.args.spike_channel_index,
                                         last.args.t_start, last.args.t_stop).value)

(***************************************************************************)
(* Properties of the event reader.                                         *)
(***************************************************************************)
EventChannelInIndex(k) == k \in 0..(Len(header.event_channels) - 1)

EventsAnswered ==
    /\ last.op = "get_event_timestamps"
    /\ EventChannelInIndex(last.args.event_channel_index)

\* C8: durations are absent when the kind of the channel in the index is
\* "event", and present with the length of timestamps and labels when the
\* kind is "epoch".
C8_DurationsFollowKind ==
    (EventsAnswered /\ last.status = "ok") =>
        LET kind == header.event_channels[last.args.event_channel_index + 1].type
        IN  /\ kind = "event" => last.value.durations = None
            /\ kind = "epoch" =>
                    /\ last.value.durations # None
                    /\ Len(last.value.durations[1]) = Len(last.value.timestamp)
                    /\ Len(last.value.durations[1]) = Len(last.value.labels)

\* the elements of seq at the positions P, in the order of seq
Pick(seq, P) ==
    [j \in 1..Cardinality(P) |->
        seq[CHOOSE i \in P : Cardinality({x \in P : x < i}) = j - 1]]

HandleReleased == \E k \in 1..Len(calls) : calls[k][1] = "close_file"

\* C11: on every exit of _parse_header, by return or by exception, that
\* follows a successful pl2_open_file, the handle has been released.
C11_HandleReleasedOnEveryExit ==
    (pc \in {"built", "failed"} /\ handle > 0) => HandleReleased

(***************************************************************************)
(* Frame property of the read methods.                                     *)
(***************************************************************************)
\* the index: nb_block, nb_segment and the four channel collections of the
\* header, and the table of stream characteristics
Index == <<header, signal_stream_characteristics>>

\* C12: once _parse_header has completed, every step - a read method that
\* returns, one that raises, the return to the caller - leaves the index and
\* the completion of the build as they are.
C12_ReadsLeaveIndexUnchanged ==
    [][pc = "built" => (pc' = "built" /\ Index' = Index)]_vars

\* a chunk request has just failed with a range error, after an earlier
\* waveform read that returned (it seeded the generator), on an index that
\* holds analog channels: reads of both outcomes have happened in sequence
C12_Witness ==
    /\ pc = "built"
    /\ rng_seed = Some(WaveformSeed)
    /\ last.op = "get_analogsignal_chunk"
    /\ last.status = "IndexError"
    /\ Len(header.signal_channels) > 0
    /\ Len(signal_stream_characteristics) > 0
    /\ header.nb_block = 1

====
